---- MODULE Spec2Model ----
(***************************************************************************)
(* The data layer of the flights service (src/datalayer/datalayer.go): a   *)
(* Database value holding one DynamoDB client, and the passenger and       *)
(* flight operations built on it.  The two tables are those declared in    *)
(* src/dynamodb/dynamo.cf-template.yml.                                    *)
(*                                                                         *)
(* Encoding.  A passenger identifier k in 1..NumIds stands for the k-th    *)
(* UUID string given to a stored passenger (identifiers are opaque and     *)
(* interchangeable); 0 stands for the empty string, the Go zero value.     *)
(* Callers may pass any identifier, stored or not.  Names                  *)
(* and flight numbers are strings.  An attribute value is a record with    *)
(* the one field of dynamodb.AttributeValue that is set: [S |-> ..],       *)
(* [N |-> ..] or [SS |-> ..]; an item (attribute map) is a record of       *)
(* attribute values; a table is a function from key values to items.       *)
(***************************************************************************)
EXTENDS Integers, Sequences, FiniteSets, TLC

VARIABLES
    svc,        \* Database.svc: the store behind the client, [flights, passengers]
    uuids,      \* the identifiers uuid.New() has given to stored passengers
    deleted,    \* of those, the ones a successful DeletePassenger has removed
    call,       \* the call being observed: operation and arguments
    ret,        \* what that call returned
    pre,        \* the tables, and uuids, just before that call
    repeat,     \* that call repeats the call before it, which succeeded
    pc,         \* concurrent callers: where each caller is in its call
    req         \* concurrent callers: the request each caller has issued

vars == <<svc, uuids, deleted, call, ret, pre, repeat, pc, req>>

-----------------------------------------------------------------------------
(* Bounds *)

NumIds == 2
NumCallers == 2

IDs == 1..NumIds
Names == {"Alice", "Bob"}
Callers == 1..NumCallers

-----------------------------------------------------------------------------
(* The tables (dynamo.cf-template.yml) and the pre-seeded flights *)

KeySchema == [flights |-> "number", passengers |-> "id"]

SeededFlight ==
    [number |-> [S |-> "BA100"], capacity |-> [N |-> 1],
     captain |-> [S |-> "Kirk"], plane |-> [S |-> "A320"]]

\* A pre-seeded item whose capacity was stored as a string: it does not
\* decode into DynamoFlight.Capacity (an int).
MalformedFlight ==
    [number |-> [S |-> "ZZ999"], capacity |-> [S |-> "many"],
     captain |-> [S |-> "Pike"], plane |-> [S |-> "B737"]]

\* The flights table as provisioned: one flight, or that flight and a
\* malformed one.
SeedFlights == "BA100" :> SeededFlight
SeedFlightsMalformed == ("BA100" :> SeededFlight) @@ ("ZZ999" :> MalformedFlight)

\* Flight numbers a caller may name: BA100 is seeded; ZZ999 is in no table
\* unless the malformed item was seeded.
FlightNumbers == {"BA100", "ZZ999"}

-----------------------------------------------------------------------------
(* Go values *)

Passenger(id, name) == [ID |-> id, Name |-> name]
ZeroPassenger == Passenger(0, "")

DynamoFlight(number, passengers, capacity, captain, plane) ==
    [Number |-> number, Passengers |-> passengers, Capacity |-> capacity,
     Captain |-> captain, Plane |-> plane]

Perms(S) ==
    {s \in [1..Cardinality(S) -> S] : \A i, j \in DOMAIN s : i # j => s[i] # s[j]}

Range(s) == {s[i] : i \in DOMAIN s}

-----------------------------------------------------------------------------
(* The store: DynamoDB's PutItem, DeleteItem, GetItem, Scan and UpdateItem  *)
(* as called through d.svc.  Each takes the tables db and returns           *)
(* [err, db] or [err, out].  fault is the request failing on the way or     *)
(* being refused by the store (throttling, network): nothing is applied.    *)

Put(table, key, item) ==
    [k \in DOMAIN table \cup {key} |-> IF k = key THEN item ELSE table[k]]

Remove(table, key) == [k \in DOMAIN table \ {key} |-> table[k]]

PutItem(db, fault, tableName, item) ==
    IF fault THEN [err |-> TRUE, db |-> db]
    ELSE [err |-> FALSE,
          db |-> [db EXCEPT ![tableName] = Put(@, item[KeySchema[tableName]].S, item)]]

\* Deleting a key that holds no item succeeds and changes nothing.
DeleteItem(db, fault, tableName, keyAttribute, key) ==
    IF fault \/ keyAttribute # KeySchema[tableName] THEN [err |-> TRUE, db |-> db]
    ELSE [err |-> FALSE, db |-> [db EXCEPT ![tableName] = Remove(@, key)]]

\* The response's Item is the empty map when the key holds no item.
GetItem(db, fault, tableName, keyAttribute, key) ==
    IF fault \/ keyAttribute # KeySchema[tableName] THEN [err |-> TRUE, Item |-> <<>>]
    ELSE [err |-> FALSE,
          Item |-> IF key \in DOMAIN db[tableName] THEN db[tableName][key] ELSE <<>>]

\* UpdateItem with "ADD #0 :0": the union with the string set stored under
\* the attribute; the attribute, and the item itself, are created when absent.
UpdateItemAdd(db, fault, tableName, keyAttribute, key, setAttribute, values) ==
    IF fault \/ keyAttribute # KeySchema[tableName] THEN [err |-> TRUE, db |-> db]
    ELSE LET table == db[tableName]
             old == IF key \in DOMAIN table
                    THEN table[key]
                    ELSE (keyAttribute :> [S |-> key])
             set == IF setAttribute \in DOMAIN old THEN old[setAttribute].SS ELSE {}
             new == [a \in DOMAIN old \cup {setAttribute} |->
                        IF a = setAttribute THEN [SS |-> set \cup values] ELSE old[a]]
         IN  [err |-> FALSE, db |-> [db EXCEPT ![tableName] = Put(table, key, new)]]

\* UpdateItem with "DELETE #0 :0": the stored set without the values; a set
\* left empty is removed from the item (a string set is never empty).  On a
\* key that holds no item the store either leaves the table alone or leaves an
\* item holding the key alone: creates picks which.
UpdateItemDelete(db, fault, creates, tableName, keyAttribute, key, setAttribute, values) ==
    IF fault \/ keyAttribute # KeySchema[tableName] THEN [err |-> TRUE, db |-> db]
    ELSE LET table == db[tableName]
             old == IF key \in DOMAIN table
                    THEN table[key]
                    ELSE (keyAttribute :> [S |-> key])
             set == IF setAttribute \in DOMAIN old THEN old[setAttribute].SS ELSE {}
             left == set \ values
             new == [a \in (DOMAIN old \ {setAttribute})
                              \cup (IF left = {} THEN {} ELSE {setAttribute}) |->
                        IF a = setAttribute THEN [SS |-> left] ELSE old[a]]
         IN  IF key \notin DOMAIN table /\ ~creates
             THEN [err |-> FALSE, db |-> db]
             ELSE [err |-> FALSE, db |-> [db EXCEPT ![tableName] = Put(table, key, new)]]

\* An item as a response carries it: a string set arrives as a list, in an
\* order the store chooses.
SSAttributes(item) == {a \in DOMAIN item : "SS" \in DOMAIN item[a]}

WireItems(item) ==
    IF SSAttributes(item) = {} THEN {item}
    ELSE LET a == CHOOSE x \in SSAttributes(item) : TRUE
         IN  {[item EXCEPT ![a] = [SS |-> order]] : order \in Perms(item[a].SS)}

\* The responses a Scan of the table can give: every item, once, in an order
\* the store chooses.
RECURSIVE ItemsInOrder(_, _, _)
ItemsInOrder(table, keys, i) ==
    IF i > Len(keys) THEN {<<>>}
    ELSE {<<item>> \o rest : item \in WireItems(table[keys[i]]),
                             rest \in ItemsInOrder(table, keys, i + 1)}

ScanOutputs(db, tableName) ==
    UNION {ItemsInOrder(db[tableName], keys, 1) : keys \in Perms(DOMAIN db[tableName])}

-----------------------------------------------------------------------------
(* dynamodbattribute.MarshalMap and UnmarshalMap for the three Go types     *)

\* A string field becomes an S attribute under the field's attribute name.
MarshalMap(item) ==
    [err |-> FALSE, av |-> [id |-> [S |-> item.ID], name |-> [S |-> item.Name]]]

\* An attribute the map lacks leaves the field at its zero value; an
\* attribute of another type than the field's is an unmarshal error.
Mistyped(av, attribute, type) ==
    attribute \in DOMAIN av /\ type \notin DOMAIN av[attribute]

Field(av, attribute, type, zero) ==
    IF attribute \in DOMAIN av /\ type \in DOMAIN av[attribute]
    THEN av[attribute][type]
    ELSE zero

UnmarshalMapPassenger(av) ==
    IF Mistyped(av, "id", "S") \/ Mistyped(av, "name", "S")
    THEN [err |-> TRUE, item |-> ZeroPassenger]
    ELSE [err |-> FALSE,
          item |-> Passenger(Field(av, "id", "S", 0), Field(av, "name", "S", ""))]

UnmarshalMapDynamoFlight(av) ==
    IF \/ Mistyped(av, "number", "S") \/ Mistyped(av, "passengers", "SS")
       \/ Mistyped(av, "capacity", "N") \/ Mistyped(av, "captain", "S")
       \/ Mistyped(av, "plane", "S")
    THEN [err |-> TRUE, item |-> DynamoFlight("", <<>>, 0, "", "")]
    ELSE [err |-> FALSE,
          item |-> DynamoFlight(Field(av, "number", "S", ""),
                                Field(av, "passengers", "SS", <<>>),
                                Field(av, "capacity", "N", 0),
                                Field(av, "captain", "S", ""),
                                Field(av, "plane", "S", ""))]

-----------------------------------------------------------------------------
(* The functions of datalayer.go.  Each returns a record: err for the Go    *)
(* error being non-nil, the value returned, and db, the tables afterwards.  *)
(* A pointer result is a sequence: <<>> for nil, <<v>> for &v.              *)

scanTable(db, fault, tableName, out) ==
    IF fault THEN [err |-> TRUE, Items |-> <<>>] ELSE [err |-> FALSE, Items |-> out]

\* CreatePassenger with one identifier made once and used for every item.
DatabaseCreatePassenger_FixedId(db, fault, id, name) ==
    LET item == Passenger(1, name)
        m == MarshalMap(item)
        put == PutItem(db, fault, "passengers", m.av)
    IN  IF m.err THEN [err |-> TRUE, passenger |-> <<>>, db |-> db]
        ELSE IF put.err THEN [err |-> TRUE, passenger |-> <<>>, db |-> db]
        ELSE [err |-> FALSE, passenger |-> <<item>>, db |-> put.db]

DatabaseCreatePassenger(db, fault, id, name) ==
    LET item == Passenger(id, name)
        m == MarshalMap(item)
        put == PutItem(db, fault, "passengers", m.av)
    IN  IF m.err THEN [err |-> TRUE, passenger |-> <<>>, db |-> db]
        ELSE IF put.err THEN [err |-> TRUE, passenger |-> <<>>, db |-> db]
        ELSE [err |-> FALSE, passenger |-> <<item>>, db |-> put.db]

\* DeletePassenger with the error of DeleteItem dropped.
DatabaseDeletePassenger_IgnoresError(db, fault, passengerId) ==
    LET del == DeleteItem(db, fault, "passengers", "id", passengerId)
    IN  [err |-> FALSE, bool |-> TRUE, db |-> del.db]

DatabaseDeletePassenger(db, fault, passengerId) ==
    LET del == DeleteItem(db, fault, "passengers", "id", passengerId)
    IN  IF del.err THEN [err |-> TRUE, bool |-> FALSE, db |-> db]
        ELSE [err |-> FALSE, bool |-> TRUE, db |-> del.db]

\* addToSet with a condition that the set does not hold the item yet.
addToSet_RejectsMember(db, fault, table, keyAttribute, key, setAttribute, setItem) ==
    IF /\ key \in DOMAIN db[table]
       /\ setAttribute \in DOMAIN db[table][key]
       /\ setItem \in db[table][key][setAttribute].SS
    THEN [err |-> TRUE, db |-> db]
    ELSE UpdateItemAdd(db, fault, table, keyAttribute, key, setAttribute, {setItem})

\* addToSet with "SET #0 = :0": the stored set is replaced by the one item.
addToSet_Overwrites(db, fault, table, keyAttribute, key, setAttribute, setItem) ==
    IF fault \/ keyAttribute # KeySchema[table] THEN [err |-> TRUE, db |-> db]
    ELSE LET old == IF key \in DOMAIN db[table]
                    THEN db[table][key]
                    ELSE (keyAttribute :> [S |-> key])
             new == [a \in DOMAIN old \cup {setAttribute} |->
                        IF a = setAttribute THEN [SS |-> {setItem}] ELSE old[a]]
         IN  [err |-> FALSE, db |-> [db EXCEPT ![table] = Put(@, key, new)]]

addToSet(db, fault, table, keyAttribute, key, setAttribute, setItem) ==
    UpdateItemAdd(db, fault, table, keyAttribute, key, setAttribute, {setItem})

\* deleteFromSet with the update expression of addToSet left in: "ADD #0 :0".
deleteFromSet_Adds(db, fault, creates, table, keyAttribute, key, setAttribute, setItem) ==
    UpdateItemAdd(db, fault, table, keyAttribute, key, setAttribute, {setItem})

\* deleteFromSet with a condition that the set holds the item.
deleteFromSet_RequiresMember(db, fault, creates, table, keyAttribute, key, setAttribute, setItem) ==
    IF /\ key \in DOMAIN db[table]
       /\ setAttribute \in DOMAIN db[table][key]
       /\ setItem \in db[table][key][setAttribute].SS
    THEN UpdateItemDelete(db, fault, creates, table, keyAttribute, key, setAttribute, {setItem})
    ELSE [err |-> TRUE, db |-> db]

deleteFromSet(db, fault, creates, table, keyAttribute, key, setAttribute, setItem) ==
    UpdateItemDelete(db, fault, creates, table, keyAttribute, key, setAttribute, {setItem})

\* BookFlight that first looks the passenger up and refuses an unknown one.
DatabaseBookFlight_Validating(db, fault, flightNumber, passengerId) ==
    LET r == addToSet(db, fault, "flights", "number", flightNumber, "passengers", passengerId)
    IN  IF passengerId \notin DOMAIN db.passengers \/ r.err
        THEN [err |-> TRUE, bool |-> FALSE, db |-> db]
        ELSE [err |-> FALSE, bool |-> TRUE, db |-> r.db]

DatabaseBookFlight(db, fault, flightNumber, passengerId) ==
    LET r == addToSet(db, fault, "flights", "number", flightNumber, "passengers", passengerId)
    IN  IF r.err THEN [err |-> TRUE, bool |-> FALSE, db |-> db]
        ELSE [err |-> FALSE, bool |-> TRUE, db |-> r.db]

DatabaseCancelBooking(db, fault, creates, flightNumber, passengerId) ==
    LET r == deleteFromSet(db, fault, creates, "flights", "number", flightNumber,
                           "passengers", passengerId)
    IN  IF r.err THEN [err |-> TRUE, bool |-> FALSE, db |-> db]
        ELSE [err |-> FALSE, bool |-> TRUE, db |-> r.db]

DatabaseGetPassenger(db, fault, passengerId) ==
    LET out == GetItem(db, fault, "passengers", "id", passengerId)
        u == UnmarshalMapPassenger(out.Item)
    IN  IF out.err THEN [err |-> TRUE, passenger |-> <<>>]
        ELSE IF u.err THEN [err |-> TRUE, passenger |-> <<>>]
        ELSE [err |-> FALSE, passenger |-> <<u.item>>]

\* The package-level GetPassenger that convertDynamoFlightToFlight calls: a
\* point lookup of the passengers table, as the method of the same name.
PackageGetPassenger(db, fault, passengerId) ==
    DatabaseGetPassenger(db, fault, passengerId)

\* GetAllFlights makes one Scan and then one GetItem per passenger id.  calls
\* counts the store calls made so far in the listing; the call numbered
\* faultAt fails (0: none does).
RECURSIVE ConvertLoop(_, _, _, _, _, _)
ConvertLoop(db, faultAt, calls, ids, i, passengers) ==
    IF i > Len(ids)
    THEN [err |-> FALSE, passengers |-> passengers, calls |-> calls]
    ELSE LET r == PackageGetPassenger(db, calls + 1 = faultAt, ids[i])
         IN  IF r.err
             THEN [err |-> TRUE, passengers |-> <<>>, calls |-> calls + 1]
             ELSE ConvertLoop(db, faultAt, calls + 1, ids, i + 1,
                              Append(passengers, r.passenger[1]))

\* convertDynamoFlightToFlight that goes on to the next id when a lookup fails.
RECURSIVE ConvertLoop_Skips(_, _, _, _, _, _)
ConvertLoop_Skips(db, faultAt, calls, ids, i, passengers) ==
    IF i > Len(ids)
    THEN [err |-> FALSE, passengers |-> passengers, calls |-> calls]
    ELSE LET r == PackageGetPassenger(db, calls + 1 = faultAt, ids[i])
         IN  ConvertLoop_Skips(db, faultAt, calls + 1, ids, i + 1,
                               IF r.err THEN passengers
                               ELSE Append(passengers, r.passenger[1]))

convertDynamoFlightToFlight_SkipsFailed(db, faultAt, calls, dynamoFlight) ==
    LET loop == ConvertLoop_Skips(db, faultAt, calls, dynamoFlight.Passengers, 1, <<>>)
    IN  [err |-> FALSE, calls |-> loop.calls,
         flight |-> <<[Number |-> dynamoFlight.Number,
                       Capacity |-> dynamoFlight.Capacity,
                       Captain |-> dynamoFlight.Captain,
                       Plane |-> dynamoFlight.Plane,
                       Passengers |-> loop.passengers]>>]

\* convertDynamoFlightToFlight that assigns the passenger instead of appending.
convertDynamoFlightToFlight_KeepsLast(db, faultAt, calls, dynamoFlight) ==
    LET loop == ConvertLoop(db, faultAt, calls, dynamoFlight.Passengers, 1, <<>>)
    IN  IF loop.err
        THEN [err |-> TRUE, flight |-> <<>>, calls |-> loop.calls]
        ELSE [err |-> FALSE, calls |-> loop.calls,
              flight |-> <<[Number |-> dynamoFlight.Number,
                            Capacity |-> dynamoFlight.Capacity,
                            Captain |-> dynamoFlight.Captain,
                            Plane |-> dynamoFlight.Plane,
                            Passengers |-> IF loop.passengers = <<>> THEN <<>>
                                           ELSE <<loop.passengers[Len(loop.passengers)]>>]>>]

convertDynamoFlightToFlight(db, faultAt, calls, dynamoFlight) ==
    LET loop == ConvertLoop(db, faultAt, calls, dynamoFlight.Passengers, 1, <<>>)
    IN  IF loop.err
        THEN [err |-> TRUE, flight |-> <<>>, calls |-> loop.calls]
        ELSE [err |-> FALSE, calls |-> loop.calls,
              flight |-> <<[Number |-> dynamoFlight.Number,
                            Capacity |-> dynamoFlight.Capacity,
                            Captain |-> dynamoFlight.Captain,
                            Plane |-> dynamoFlight.Plane,
                            Passengers |-> loop.passengers]>>]

RECURSIVE FlightsLoop(_, _, _, _, _, _)
FlightsLoop(db, faultAt, calls, items, i, flights) ==
    IF i > Len(items)
    THEN [err |-> FALSE, flights |-> flights, calls |-> calls]
    ELSE LET u == UnmarshalMapDynamoFlight(items[i])
             c == convertDynamoFlightToFlight(db, faultAt, calls, u.item)
         IN  IF u.err THEN [err |-> TRUE, flights |-> <<>>, calls |-> calls]
             ELSE IF c.err THEN [err |-> TRUE, flights |-> <<>>, calls |-> c.calls]
             ELSE FlightsLoop(db, faultAt, c.calls, items, i + 1,
                              Append(flights, c.flight[1]))

DatabaseGetAllFlights(db, faultAt, out) ==
    LET result == scanTable(db, faultAt = 1, "flights", out)
    IN  IF result.err THEN [err |-> TRUE, flights |-> <<>>, calls |-> 1]
        ELSE FlightsLoop(db, faultAt, 1, result.Items, 1, <<>>)

-----------------------------------------------------------------------------
(* Calls on the Database, one after another.  The Database keeps nothing    *)
(* between calls; call, ret, pre and repeat observe one call.  A call is    *)
(* observed once the observation before it has been dropped (Return), or at *)
(* once when it repeats the request just observed, so that two calls in a   *)
(* row are observed together.                                               *)

NoCall ==
    [op |-> "none", name |-> "", flightNumber |-> "", passengerId |-> 0,
     fault |-> FALSE, faultAt |-> 0, scan |-> <<>>]

NoReturn ==
    [err |-> FALSE, bool |-> FALSE, passenger |-> <<>>, flights |-> <<>>, calls |-> 0]

\* What a concurrent caller has asked for; overlapped: another caller's request
\* was waiting at the store at the same time as this one.
NoRequest == [op |-> "none", passengerId |-> 0, fault |-> FALSE, overlapped |-> FALSE]

Tables(db, ids) ==
    [flights |-> db.flights, passengers |-> db.passengers, created |-> ids]

SameRequest(c1, c2) ==
    /\ c1.op = c2.op
    /\ c1.name = c2.name
    /\ c1.flightNumber = c2.flightNumber
    /\ c1.passengerId = c2.passengerId

Again(c) ==
    /\ c.op \in {"CreatePassenger", "BookFlight", "CancelBooking"}
    /\ SameRequest(call, c)
    /\ ~ret.err

\* No call is under observation, or one that a call of op may repeat.
Ready(op) == call.op = "none" \/ (call.op = op /\ ~ret.err)

Returns(c, r) ==
    /\ call.op = "none" \/ Again(c)
    /\ call' = c
    /\ ret' = r
    /\ pre' = Tables(svc, uuids)
    /\ repeat' = Again(c)
    /\ UNCHANGED <<pc, req>>

\* uuid.New(): an identifier no stored passenger has.
uuidNew == Cardinality(uuids) + 1

PassengerSet(flights, flightNumber) ==
    IF flightNumber \in DOMAIN flights /\ "passengers" \in DOMAIN flights[flightNumber]
    THEN flights[flightNumber].passengers.SS
    ELSE {}

RECURSIVE Bookings(_, _)
Bookings(flights, numbers) ==
    IF numbers = {} THEN 0
    ELSE LET k == CHOOSE x \in numbers : TRUE
         IN  Cardinality(PassengerSet(flights, k)) + Bookings(flights, numbers \ {k})

\* The number of store calls a listing of the tables db makes when none fails.
StoreCalls(db) == 1 + Bookings(db.flights, DOMAIN db.flights)

Init ==
    /\ svc \in {[flights |-> SeedFlights, passengers |-> <<>>],
                [flights |-> SeedFlightsMalformed, passengers |-> <<>>]}
    /\ uuids = {}
    /\ deleted = {}
    /\ call = NoCall
    /\ ret = NoReturn
    /\ pre = Tables(svc, {})
    /\ repeat = FALSE
    /\ pc = [c \in Callers |-> "idle"]
    /\ req = [c \in Callers |-> NoRequest]

CreatePassenger ==
    /\ Ready("CreatePassenger")
    /\ \E name \in Names, fault \in BOOLEAN :
           LET r == DatabaseCreatePassenger(svc, fault, uuidNew, name)
               ids == {p.ID : p \in Range(r.passenger)}
           IN  /\ uuidNew \in IDs
               /\ svc' = r.db
               /\ uuids' = uuids \cup ids
               /\ deleted' = deleted \ ids
               /\ Returns([NoCall EXCEPT !.op = "CreatePassenger", !.name = name,
                                         !.fault = fault],
                          [NoReturn EXCEPT !.err = r.err, !.passenger = r.passenger])

DeletePassenger ==
    /\ Ready("DeletePassenger")
    /\ \E passengerId \in IDs, fault \in BOOLEAN :
           \E r \in {DatabaseDeletePassenger(svc, fault, passengerId)} :
               /\ svc' = r.db
               /\ deleted' = IF r.err THEN deleted
                             ELSE deleted \cup ({passengerId} \cap uuids)
               /\ UNCHANGED uuids
               /\ Returns([NoCall EXCEPT !.op = "DeletePassenger",
                                         !.passengerId = passengerId, !.fault = fault],
                          [NoReturn EXCEPT !.err = r.err, !.bool = r.bool])

BookFlight ==
    /\ Ready("BookFlight")
    /\ \E flightNumber \in FlightNumbers, passengerId \in IDs, fault \in BOOLEAN :
           \E r \in {DatabaseBookFlight(svc, fault, flightNumber, passengerId)} :
               /\ svc' = r.db
               /\ UNCHANGED <<uuids, deleted>>
               /\ Returns([NoCall EXCEPT !.op = "BookFlight", !.flightNumber = flightNumber,
                                         !.passengerId = passengerId, !.fault = fault],
                          [NoReturn EXCEPT !.err = r.err, !.bool = r.bool])

CancelBooking ==
    /\ Ready("CancelBooking")
    /\ \E flightNumber \in FlightNumbers, passengerId \in IDs, fault \in BOOLEAN :
           \E creates \in IF flightNumber \in DOMAIN svc.flights THEN {FALSE} ELSE BOOLEAN :
               \E r \in {DatabaseCancelBooking(svc, fault, creates, flightNumber, passengerId)} :
                   /\ svc' = r.db
                   /\ UNCHANGED <<uuids, deleted>>
                   /\ Returns([NoCall EXCEPT !.op = "CancelBooking",
                                             !.flightNumber = flightNumber,
                                             !.passengerId = passengerId, !.fault = fault],
                              [NoReturn EXCEPT !.err = r.err, !.bool = r.bool])

GetPassenger ==
    /\ Ready("GetPassenger")
    /\ \E passengerId \in IDs, fault \in BOOLEAN :
           \E r \in {DatabaseGetPassenger(svc, fault, passengerId)} :
               /\ UNCHANGED <<svc, uuids, deleted>>
               /\ Returns([NoCall EXCEPT !.op = "GetPassenger",
                                         !.passengerId = passengerId, !.fault = fault],
                          [NoReturn EXCEPT !.err = r.err, !.passenger = r.passenger])

GetAllFlights ==
    /\ Ready("GetAllFlights")
    /\ \E out \in ScanOutputs(svc, "flights"), faultAt \in 0..StoreCalls(svc) :
           \E r \in {DatabaseGetAllFlights(svc, faultAt, out)} :
               /\ UNCHANGED <<svc, uuids, deleted>>
               /\ Returns([NoCall EXCEPT !.op = "GetAllFlights", !.faultAt = faultAt,
                                         !.scan = [i \in DOMAIN out |-> out[i].number.S]],
                          [NoReturn EXCEPT !.err = r.err, !.flights = r.flights,
                                           !.calls = r.calls])

\* The caller has its result; the observation is dropped.
Return ==
    /\ call.op # "none"
    /\ call' = NoCall
    /\ ret' = NoReturn
    /\ pre' = Tables(svc, uuids)
    /\ repeat' = FALSE
    /\ UNCHANGED <<svc, uuids, deleted, pc, req>>

Next ==
    \/ CreatePassenger
    \/ DeletePassenger
    \/ BookFlight
    \/ CancelBooking
    \/ GetPassenger
    \/ GetAllFlights
    \/ Return

Spec == Init /\ [][Next]_vars

-----------------------------------------------------------------------------
(* Callers booking and cancelling on one flight at the same time.  A call   *)
(* is the caller sending its one UpdateItem (Issue) and the store applying  *)
(* it and answering (Serve); the layer holds no lock, so the requests of    *)
(* several callers wait at the store together and are applied in any order. *)

ContendedFlight == "BA100"

Booked(S) ==
    IF S = {} THEN SeededFlight
    ELSE [a \in DOMAIN SeededFlight \cup {"passengers"} |->
             IF a = "passengers" THEN [SS |-> S] ELSE SeededFlight[a]]

InitConcurrent ==
    /\ \E S \in SUBSET IDs :
          svc = [flights |-> (ContendedFlight :> Booked(S)), passengers |-> <<>>]
    /\ uuids = {}
    /\ deleted = {}
    /\ call = NoCall
    /\ ret = NoReturn
    /\ pre = Tables(svc, {})
    /\ repeat = FALSE
    /\ pc = [c \in Callers |-> "idle"]
    /\ req = [c \in Callers |-> NoRequest]

Waiting == {c \in Callers : pc[c] = "called"}

Issue(c) ==
    /\ pc[c] = "idle"
    /\ \E op \in {"BookFlight", "CancelBooking"}, passengerId \in IDs, fault \in BOOLEAN :
          req' = [d \in Callers |->
                    IF d = c
                    THEN [op |-> op, passengerId |-> passengerId, fault |-> fault,
                          overlapped |-> Waiting # {}]
                    ELSE IF d \in Waiting THEN [req[d] EXCEPT !.overlapped = TRUE]
                    ELSE req[d]]
    /\ pc' = [pc EXCEPT ![c] = "called"]
    /\ UNCHANGED <<svc, uuids, deleted, call, ret, pre, repeat>>

Serve(c) ==
    /\ pc[c] = "called"
    /\ LET r == IF req[c].op = "BookFlight"
                THEN DatabaseBookFlight(svc, req[c].fault, ContendedFlight,
                                        req[c].passengerId)
                ELSE DatabaseCancelBooking(svc, req[c].fault, FALSE, ContendedFlight,
                                           req[c].passengerId)
       IN  /\ svc' = r.db
           /\ pc' = [pc EXCEPT ![c] = IF r.err THEN "failed" ELSE "succeeded"]
    /\ UNCHANGED <<uuids, deleted, call, ret, pre, repeat, req>>

NextConcurrent == \E c \in Callers : Issue(c) \/ Serve(c)

SpecConcurrent == InitConcurrent /\ [][NextConcurrent]_vars

-----------------------------------------------------------------------------
(* Properties of the calls *)

\* Every identifier in a flight's passenger set is the key of a passengers item.
Integrity(t) ==
    \A f \in DOMAIN t.flights : PassengerSet(t.flights, f) \subseteq DOMAIN t.passengers

Now == Tables(svc, uuids)

\* The passengers item under id, as a Passenger.
Stored(passengers, id) == Passenger(passengers[id].id.S, passengers[id].name.S)

Count(seq, v) == Cardinality({i \in DOMAIN seq : seq[i] = v})

\* C1: once DeletePassenger(id) has succeeded for an identifier CreatePassenger
\* returned, and no CreatePassenger has returned it again, GetPassenger(id)
\* gives an error and nil, or the zero-valued Passenger: never the deleted
\* passenger's id or name; and it gives no error unless the store fails.
C1_DeleteThenGet ==
    (call.op = "GetPassenger" /\ call.passengerId \in deleted) =>
        /\ ~call.fault => ~ret.err
        /\ ret.err => ret.passenger = <<>>
        /\ ~ret.err => ret.passenger = <<ZeroPassenger>>
        /\ \A p \in Range(ret.passenger) :
              p.ID # call.passengerId /\ p.Name \notin Names

C1_Witness ==
    /\ call.op = "GetPassenger"
    /\ call.passengerId \in deleted
    /\ call.passengerId \in uuids
    /\ ~ret.err

\* C2 as claimed: a successful GetAllFlights returns, for every flights item,
\* exactly one record, whose passenger list holds exactly one record per id of
\* the item's set, each the passengers item of that id, and nothing else.
C2_Original ==
    (call.op = "GetAllFlights" /\ ~ret.err) =>
        \A f \in DOMAIN svc.flights :
            /\ Cardinality({i \in DOMAIN ret.flights : ret.flights[i].Number = f}) = 1
            /\ \A i \in DOMAIN ret.flights : ret.flights[i].Number = f =>
                  LET P == ret.flights[i].Passengers
                      S == PassengerSet(svc.flights, f)
                  IN  /\ Len(P) = Cardinality(S)
                      /\ \A id \in S : /\ id \in DOMAIN svc.passengers
                                       /\ Count(P, Stored(svc.passengers, id)) = 1

\* C2 as amended: a successful GetAllFlights returns exactly one record per
\* flights item and no other; its passenger list has one entry per id of the
\* item's set: the passengers item of that id when there is one, and a
\* zero-valued Passenger for each id that has none; whatever the order in
\* which the store returns the items and the ids.
C2_ExpandedPassengers ==
    (call.op = "GetAllFlights" /\ ~ret.err) =>
        /\ Len(ret.flights) = Cardinality(DOMAIN svc.flights)
        /\ \A f \in DOMAIN svc.flights :
            /\ Cardinality({i \in DOMAIN ret.flights : ret.flights[i].Number = f}) = 1
            /\ \A i \in DOMAIN ret.flights : ret.flights[i].Number = f =>
                  LET P == ret.flights[i].Passengers
                      S == PassengerSet(svc.flights, f)
                  IN  /\ Len(P) = Cardinality(S)
                      /\ \A id \in S \cap DOMAIN svc.passengers :
                            Count(P, Stored(svc.passengers, id)) = 1
                      /\ Count(P, ZeroPassenger) = Cardinality(S \ DOMAIN svc.passengers)

C2_Witness ==
    /\ call.op = "GetAllFlights"
    /\ ~ret.err
    /\ \E f \in DOMAIN svc.flights :
          LET S == PassengerSet(svc.flights, f)
          IN  /\ Cardinality(S) >= 2
              /\ S \cap DOMAIN svc.passengers # {}
              /\ S \ DOMAIN svc.passengers # {}

\* C3 as claimed: in every reachable state a flight's passenger set holds only
\* identifiers of passengers items.
C3_Original == Integrity(Now)

\* C3 as amended: a call leaves every flight's passenger set within the
\* identifiers of the passengers items unless it is a BookFlight naming an id
\* that has no passengers item or a DeletePassenger naming an id some flight
\* still holds; those two calls are the only ones that break it.
C3_BrokenOnlyByCaller ==
    (Integrity(pre) /\ ~Integrity(Now)) =>
        \/ /\ call.op = "BookFlight"
           /\ call.passengerId \notin DOMAIN pre.passengers
        \/ /\ call.op = "DeletePassenger"
           /\ \E f \in DOMAIN pre.flights :
                 call.passengerId \in PassengerSet(pre.flights, f)

C3_Witness ==
    /\ call.op = "DeletePassenger"
    /\ ~ret.err
    /\ call.passengerId \in DOMAIN pre.passengers
    /\ Integrity(Now)
    /\ \E f \in DOMAIN svc.flights : PassengerSet(svc.flights, f) # {}

\* C4: a successful BookFlight(f, p) leaves f with an item whose set holds p,
\* and no call removes a flights item; a successful CancelBooking(f, p) leaves
\* f's set without p; and a CancelBooking(f, p) that follows a successful
\* CancelBooking(f, p) on a flight that has an item succeeds unless the store
\* fails and leaves both tables as they were.
C4_CancelTwice ==
    /\ DOMAIN pre.flights \subseteq DOMAIN svc.flights
    /\ (call.op = "BookFlight" /\ ~ret.err) =>
          /\ call.flightNumber \in DOMAIN svc.flights
          /\ call.passengerId \in PassengerSet(svc.flights, call.flightNumber)
    /\ (call.op = "CancelBooking" /\ ~ret.err) =>
          /\ ret.bool
          /\ call.passengerId \notin PassengerSet(svc.flights, call.flightNumber)
    /\ (call.op = "CancelBooking" /\ repeat /\ call.flightNumber \in DOMAIN pre.flights) =>
          /\ ~call.fault => (~ret.err /\ ret.bool)
          /\ svc.flights = pre.flights
          /\ svc.passengers = pre.passengers

C4_Witness ==
    /\ call.op = "CancelBooking"
    /\ repeat
    /\ ~ret.err
    /\ call.flightNumber \in DOMAIN pre.flights

\* C5: a BookFlight(f, p) that follows a successful BookFlight(f, p) succeeds
\* unless the store fails, and leaves both tables as the first call left them,
\* with p in f's set.
C5_BookTwice ==
    (call.op = "BookFlight" /\ repeat) =>
        /\ ~call.fault => (~ret.err /\ ret.bool)
        /\ svc.flights = pre.flights
        /\ svc.passengers = pre.passengers
        /\ call.passengerId \in PassengerSet(svc.flights, call.flightNumber)

C5_Witness == call.op = "BookFlight" /\ repeat /\ ~ret.err

\* C6: a successful CreatePassenger(name) returns a Passenger of that name
\* whose id is not empty and was returned by no earlier CreatePassenger; it
\* adds that one item to the passengers table and changes no other item.
C6_FreshIdentifier ==
    (call.op = "CreatePassenger" /\ ~ret.err) =>
        /\ Len(ret.passenger) = 1
        /\ LET p == ret.passenger[1]
           IN  /\ p.ID # 0
               /\ p.Name = call.name
               /\ p.ID \notin pre.created
               /\ p.ID \notin DOMAIN pre.passengers
               /\ DOMAIN svc.passengers = DOMAIN pre.passengers \cup {p.ID}
               /\ Stored(svc.passengers, p.ID) = p
               /\ \A id \in DOMAIN pre.passengers :
                     svc.passengers[id] = pre.passengers[id]
        /\ Cardinality(DOMAIN svc.passengers) = Cardinality(DOMAIN pre.passengers) + 1
        /\ svc.flights = pre.flights

C6_Witness == call.op = "CreatePassenger" /\ repeat /\ ~ret.err

\* C7 as claimed: no call creates or deletes a flights item or changes a
\* flight's capacity, captain or plane.
C7_FlightsNeverCreated ==
    /\ DOMAIN svc.flights = DOMAIN pre.flights
    /\ \A f \in DOMAIN pre.flights :
          \A a \in {"number", "capacity", "captain", "plane"} :
              /\ a \in DOMAIN svc.flights[f] <=> a \in DOMAIN pre.flights[f]
              /\ a \in DOMAIN pre.flights[f] => svc.flights[f][a] = pre.flights[f][a]

\* C8: BookFlight(f, p) on a flight that has an item succeeds whenever the
\* store's update does not fail, and then f's set is what it was with p added,
\* also when p has no passengers item and when the set already held as many
\* ids as the flight's capacity; BookFlight returns (false, error) only when
\* the store's update fails, and then changes nothing.
C8_NoValidation ==
    (call.op = "BookFlight") =>
        /\ (call.flightNumber \in DOMAIN pre.flights /\ ~call.fault) =>
              /\ ~ret.err /\ ret.bool
              /\ PassengerSet(svc.flights, call.flightNumber)
                    = PassengerSet(pre.flights, call.flightNumber) \cup {call.passengerId}
        /\ ret.err =>
              /\ call.fault /\ ~ret.bool
              /\ svc.flights = pre.flights
        /\ ret.err <=> ~ret.bool

C8_Witness ==
    /\ call.op = "BookFlight"
    /\ ~ret.err
    /\ call.flightNumber \in DOMAIN pre.flights
    /\ "capacity" \in DOMAIN pre.flights[call.flightNumber]
    /\ "N" \in DOMAIN pre.flights[call.flightNumber].capacity
    /\ call.passengerId \notin DOMAIN pre.passengers
    /\ call.passengerId \notin PassengerSet(pre.flights, call.flightNumber)
    /\ Cardinality(PassengerSet(pre.flights, call.flightNumber))
          >= pre.flights[call.flightNumber].capacity.N

\* The store calls GetAllFlights has made when it comes to unmarshal the j-th
\* scanned item: the scan and one lookup per id of the items before it.
CallsBefore(j) ==
    1 + Bookings(svc.flights, {call.scan[i] : i \in 1..(j - 1)})

Undecodable(item) ==
    \E a \in DOMAIN item :
        \/ a \in {"number", "captain", "plane"} /\ "S" \notin DOMAIN item[a]
        \/ a = "capacity" /\ "N" \notin DOMAIN item[a]
        \/ a = "passengers" /\ "SS" \notin DOMAIN item[a]

FirstUndecodable ==
    LET bad == {j \in DOMAIN call.scan : Undecodable(svc.flights[call.scan[j]])}
    IN  IF bad = {} THEN Len(call.scan) + 1
        ELSE CHOOSE j \in bad : \A k \in bad : j <= k

\* C9: GetAllFlights stops at the first failure.  When the failing store call
\* (the scan or a lookup) is reached, it returns an error and no list, having
\* made no store call after the failing one; when an item that does not decode
\* is reached first, it returns an error and no list, having made no store call
\* after the lookups of the items before it; otherwise it returns no error and
\* one record per item.
C9_FailFast ==
    (call.op = "GetAllFlights") =>
        LET reach == CallsBefore(FirstUndecodable)
        IN  IF call.faultAt \in 1..reach
            THEN ret.err /\ ret.flights = <<>> /\ ret.calls = call.faultAt
            ELSE IF FirstUndecodable <= Len(call.scan)
            THEN ret.err /\ ret.flights = <<>> /\ ret.calls = reach
            ELSE ~ret.err /\ Len(ret.flights) = Len(call.scan) /\ ret.calls = reach

C9_Witness ==
    /\ call.op = "GetAllFlights"
    /\ ret.err
    /\ call.faultAt >= 2
    /\ ret.calls = call.faultAt
    /\ call.faultAt < StoreCalls(svc)

\* The passenger set a successful call of caller c makes of the set S.
Applied(S, c) ==
    IF pc[c] # "succeeded" THEN S
    ELSE IF req[c].op = "BookFlight" THEN S \cup {req[c].passengerId}
    ELSE S \ {req[c].passengerId}

RECURSIVE InOrder(_, _, _)
InOrder(S, order, i) ==
    IF i > Len(order) THEN S ELSE InOrder(Applied(S, order[i]), order, i + 1)

Answered == {c \in Callers : pc[c] \in {"succeeded", "failed"}}

\* C10: whatever the order in which the store serves the callers' requests,
\* the flight's passenger set is what the answered BookFlight and
\* CancelBooking calls make of the initial set when applied one after another
\* in some order; and every id a successful BookFlight added is in the set
\* unless a successful CancelBooking named it.
C10_Linearizable ==
    /\ \E order \in Perms(Answered) :
          PassengerSet(svc.flights, ContendedFlight)
              = InOrder(PassengerSet(pre.flights, ContendedFlight), order, 1)
    /\ \A c \in Answered :
          (/\ pc[c] = "succeeded"
           /\ req[c].op = "BookFlight"
           /\ \A d \in Answered :
                 ~(/\ pc[d] = "succeeded"
                   /\ req[d].op = "CancelBooking"
                   /\ req[d].passengerId = req[c].passengerId))
          => req[c].passengerId \in PassengerSet(svc.flights, ContendedFlight)

C10_Witness ==
    \E c, d \in Callers :
        /\ pc[c] = "succeeded" /\ pc[d] = "succeeded"
        /\ req[c].op = "BookFlight" /\ req[d].op = "BookFlight"
        /\ req[c].passengerId # req[d].passengerId
        /\ req[c].overlapped /\ req[d].overlapped
        /\ req[c].passengerId \notin PassengerSet(pre.flights, ContendedFlight)
        /\ req[d].passengerId \notin PassengerSet(pre.flights, ContendedFlight)

====
